---------------------------- MODULE Spec2Model ----------------------------
(***************************************************************************)
(* A model of spo.py, the command line controller for Spotify: main(),     *)
(* the search helpers get_search_result_dict / search_and_get_uri and the  *)
(* interactive result picker let_user_scroll.                              *)
(*                                                                         *)
(* Python values that may be None are tagged records, so that None, a      *)
(* string and an OrderedDict can be told apart and tested for truthiness   *)
(* the way the interpreter does.                                           *)
(***************************************************************************)
EXTENDS Integers, Sequences, FiniteSets, TLC

VARIABLES
    cmd,            \* the command docopt parsed (args[...]), "none" for no arguments
    pc,             \* position of main()
    search_type,    \* search_type argument of the search helper that was called
    rawItems,       \* search_data[search_type]['items'] returned by spotipy
    results_array,  \* the OrderedDict main() got from get_search_result_dict
    index,          \* let_user_scroll: the cursor
    keys,           \* the characters getch() returned so far, oldest first
    user_selection, \* value returned by let_user_scroll / search_and_get_uri
    out,            \* terminal output, oldest first
    calls           \* calls made on dbus, os.system, oldest first

vars == <<cmd, pc, search_type, rawItems, results_array, index, keys,
          user_selection, out, calls>>

---------------------------------------------------------------------------
(* Bounds of the model *)

MaxItems == 3    \* items in one search response
MaxKeys == 3     \* non-terminal characters read by one picker invocation

---------------------------------------------------------------------------
(* Python values *)

None == [tag |-> "None"]
Str(s) == [tag |-> "str", v |-> s]
Dict(entries) == [tag |-> "dict", items |-> entries]

\* Python truth value testing: None, '' and an empty mapping are false
Truthy(x) ==
    CASE x.tag = "None" -> FALSE
      [] x.tag = "str"  -> x.v /= ""
      [] x.tag = "dict" -> Len(x.items) > 0

---------------------------------------------------------------------------
(* Inputs: characters, identifiers and the records of a search response *)

KEY_ESC == "\\x1B"
KEY_CR == "\\x0D"
Keys == {"j", "k", "q", "y", KEY_ESC, KEY_CR}

Uris == {"", "A", "B", "C"}
Names == {"n1", "n2"}

\* one element of search_data[search_type]['items']
RawItem == [uri : Uris, name : Names,
            artists : {<<[name |-> "ar"]>>}, album : {[name |-> "al"]}]

\* the items main() is given in a run: the display name does not
\* influence main(), so one name is enough there
MainItem == {it \in RawItem : it.name = "n1"}

SeqsUpTo(S, n) == UNION {[1..m -> S] : m \in 0..n}

Commands == {"none", "prev", "play", "pause", "next", "save", "vol_up",
             "vol_down", "search", "song", "artist", "album"}

SearchTypes == {"tracks", "artists", "albums"}

---------------------------------------------------------------------------
(* OrderedDict *)

RECURSIVE PosOf(_, _, _)
\* position of key k in the entries from position i on, 0 when absent
PosOf(entries, k, i) ==
    IF i > Len(entries) THEN 0
    ELSE IF entries[i].key = k THEN i
    ELSE PosOf(entries, k, i + 1)

\* rtn_dict[k] = v: a new key goes last, an existing key keeps its place
DictSetDup(entries, k, v) == Append(entries, [key |-> k, val |-> v])
DictSet(entries, k, v) ==
    LET p == PosOf(entries, k, 1)
    IN  IF p = 0 THEN Append(entries, [key |-> k, val |-> v])
        ELSE [entries EXCEPT ![p] = [key |-> k, val |-> v]]

DictKeys(d) == [i \in 1..Len(d.items) |-> d.items[i].key]
DictValues(d) == [i \in 1..Len(d.items) |-> d.items[i].val]

---------------------------------------------------------------------------
(* get_search_result_dict, search_and_get_uri *)

\* the display fields of one item
ProjectFieldsSwapped(item, stype) ==
    CASE stype = "tracks"  -> <<item.name, item.artists[1].name>>
      [] stype = "artists" -> <<item.name>>
      [] stype = "albums"  -> <<item.name, item.artists[1].name, item.album.name>>
ProjectFields(item, stype) ==
    CASE stype = "tracks"  -> <<item.name, item.artists[1].name, item.album.name>>
      [] stype = "artists" -> <<item.name>>
      [] stype = "albums"  -> <<item.name, item.artists[1].name>>

RECURSIVE FillDict(_, _, _, _)
\* the for loop over the items, from item i on
FillDict(entries, items, stype, i) ==
    IF i > Len(items) THEN entries
    ELSE FillDict(DictSet(entries, items[i].uri, ProjectFields(items[i], stype)),
                  items, stype, i + 1)

get_search_result_dict(items, stype) ==
    IF Len(items) > 0 THEN Dict(FillDict(<<>>, items, stype, 1)) ELSE None

search_and_get_uri(items) ==
    IF Len(items) > 0 THEN Str(items[1].uri) ELSE None

---------------------------------------------------------------------------
(* PrettyListCreator (listcreator.py) and the terminal *)

\* pretty_list(index): the block of all rows with row index highlighted
pretty_list(rows, idx) == [kind |-> "list", rows |-> rows, sel |-> idx]
EmptyText == [kind |-> "empty"]

\* reprint(text): repaint the block in place
reprint(text) == [op |-> "reprint", frame |-> text]
\* moveup(n): move the terminal cursor up n lines
moveup(n) == [op |-> "moveup", n |-> n]
print(text) == [op |-> "print", text |-> text]

---------------------------------------------------------------------------
(* let_user_scroll *)

MoveupMargin == 10

\* line 74
IsCancelQOnly(c) == c = "q"
IsCancel(c) == c = "q" \/ c = KEY_ESC

\* line 76
CanDownOffByOne(c, idx, len) == c = "j" /\ idx < len
CanDown(c, idx, len) == c = "j" /\ idx < len - 1

\* line 79
CanUpOffByOne(c, idx) == c = "k" /\ idx >= 0
CanUpLate(c, idx) == c = "k" /\ idx > 1
CanUp(c, idx) == c = "k" /\ idx > 0

\* line 82
IsConfirmElse(c) == TRUE
IsConfirm(c) == c = KEY_CR

\* line 85: list(results_array.keys())[index]
SelectionAtFirst(d, idx) == Str(DictKeys(d)[1])
SelectionAt(d, idx) == Str(DictKeys(d)[idx + 1])

\* lines 78, 81: listCreator.reprint(listCreator.pretty_list(index))
RerenderNone(o, rows, idx) == o
Rerender(o, rows, idx) == Append(o, reprint(pretty_list(rows, idx)))

\* line 75: return None, nothing is written to the terminal
CancelOutRestored(o, results_len) ==
    o \o <<reprint(EmptyText), moveup(results_len + MoveupMargin)>>
CancelOut(o, results_len) == o

\* lines 83-84: clear the block, then move up past it
ConfirmOutSwapped(o, results_len) ==
    o \o <<moveup(results_len + MoveupMargin), reprint(EmptyText)>>
ConfirmOut(o, results_len) ==
    o \o <<reprint(EmptyText), moveup(results_len + MoveupMargin)>>

\* lines 67-71: the first frame, cursor on the first entry
ScrollEnter(d) == <<reprint(pretty_list(DictValues(d), 0))>>

\* one iteration of the while loop on character c
ScrollKey(c) ==
    /\ pc = "scroll"
    /\ Len(keys) < MaxKeys \/ IsCancel(c) \/ IsConfirm(c)
    /\ keys' = Append(keys, c)
    /\ LET results_array_length == Len(results_array.items)
           results_len == Len(results_array.items)
       IN  IF IsCancel(c) THEN
               /\ out' = CancelOut(out, results_len)
               /\ user_selection' = None
               /\ pc' = "picked"
               /\ UNCHANGED index
           ELSE IF CanDown(c, index, results_array_length) THEN
               /\ index' = index + 1
               /\ out' = Rerender(out, DictValues(results_array), index')
               /\ UNCHANGED <<pc, user_selection>>
           ELSE IF CanUp(c, index) THEN
               /\ index' = index - 1
               /\ out' = Rerender(out, DictValues(results_array), index')
               /\ UNCHANGED <<pc, user_selection>>
           ELSE IF IsConfirm(c) THEN
               /\ out' = ConfirmOut(out, results_len)
               /\ user_selection' = SelectionAt(results_array, index)
               /\ pc' = "picked"
               /\ UNCHANGED index
           ELSE UNCHANGED <<index, out, pc, user_selection>>
    /\ UNCHANGED <<cmd, search_type, rawItems, results_array, calls>>

---------------------------------------------------------------------------
(* main *)

Call(fn, arg) == [fn |-> fn, arg |-> arg]

VOL_UP == "amixer -q -D pulse sset Master 5%+"
VOL_DOWN == "amixer -q -D pulse sset Master 5%-"
NoResultsMsg == "No results found for query: "

\* line 142: print("No results found for query: " + ...)
ReportNoResultsSilent(o) == o
ReportNoResults(o) == Append(o, print(NoResultsMsg))

Init ==
    /\ cmd \in Commands
    /\ pc = "start"
    /\ search_type = ""
    /\ rawItems = <<>>
    /\ results_array = None
    /\ index = 0
    /\ keys = <<>>
    /\ user_selection = None
    /\ out = <<>>
    /\ calls = <<>>

\* lines 92-99: dbus.SessionBus().get_object(...) succeeds or raises
Connect ==
    /\ pc = "start"
    /\ \E ok \in BOOLEAN :
         IF ok THEN pc' = "dispatch" /\ out' = out
         ELSE /\ pc' = "launch_prompt"
              /\ out' = out \o <<print("Error: cannot connect to spotify"),
                                 print("Would you like to launch spotify client? (y/n)")>>
    /\ UNCHANGED <<cmd, search_type, rawItems, results_array, index, keys,
                   user_selection, calls>>

\* line 100: getch() == 'y'
LaunchConfirmedNotN(c) == c /= "n"
LaunchConfirmed(c) == c = "y"

\* lines 100-106
LaunchPrompt(c) ==
    /\ pc = "launch_prompt"
    /\ keys' = Append(keys, c)
    /\ IF LaunchConfirmed(c)
       THEN /\ out' = out \o <<print("launching spotify..."),
                               print("spotify launched successfully")>>
            /\ calls' = Append(calls, Call("os.system", Str("spotify --minimized & > /dev/null")))
       ELSE /\ out' = Append(out, print("aborting..."))
            /\ calls' = calls
    /\ pc' = "done"
    /\ UNCHANGED <<cmd, search_type, rawItems, results_array, index, user_selection>>

\* lines 109-110, 120-121: a command followed by the metadata display
Skip(c, fn) ==
    /\ pc = "dispatch" /\ cmd = c
    /\ calls' = Append(calls, Call(fn, None))
    /\ pc' = "metadata"
    /\ UNCHANGED <<cmd, search_type, rawItems, results_array, index, keys,
                   user_selection, out>>

\* lines 112-118: a command after which main returns
Toggle(c, fn) ==
    /\ pc = "dispatch" /\ cmd = c
    /\ calls' = Append(calls, Call(fn, None))
    /\ pc' = "done"
    /\ UNCHANGED <<cmd, search_type, rawItems, results_array, index, keys,
                   user_selection, out>>

\* lines 123-124
Save ==
    /\ pc = "dispatch" /\ cmd = "save"
    /\ pc' = "done"
    /\ UNCHANGED <<cmd, search_type, rawItems, results_array, index, keys,
                   user_selection, out, calls>>

\* lines 126-131
Vol ==
    /\ pc = "dispatch" /\ cmd \in {"vol_up", "vol_down"}
    /\ calls' = Append(calls, Call("os.system",
                       Str(IF cmd = "vol_up" THEN VOL_UP ELSE VOL_DOWN)))
    /\ pc' = "done"
    /\ UNCHANGED <<cmd, search_type, rawItems, results_array, index, keys,
                   user_selection, out>>

\* line 108 with no command given: nothing is sent
NoCommand ==
    /\ pc = "dispatch" /\ cmd = "none"
    /\ pc' = "metadata"
    /\ UNCHANGED <<cmd, search_type, rawItems, results_array, index, keys,
                   user_selection, out, calls>>

\* lines 133-136, 141-143: the search, then the picker's first frame
Search ==
    /\ pc = "dispatch" /\ cmd = "search"
    /\ \E items \in SeqsUpTo(MainItem, MaxItems) :
         /\ rawItems' = items
         /\ search_type' = "tracks"
         /\ results_array' = get_search_result_dict(items, "tracks")
    /\ IF Truthy(results_array')
       THEN /\ out' = out \o ScrollEnter(results_array')
            /\ index' = 0
            /\ pc' = "scroll"
       ELSE /\ out' = ReportNoResults(out)
            /\ index' = index
            /\ pc' = "done"
    /\ UNCHANGED <<cmd, keys, user_selection, calls>>

\* lines 137-140
AfterPick ==
    /\ pc = "picked"
    /\ IF Truthy(user_selection)
       THEN /\ calls' = Append(calls, Call("OpenUri", user_selection))
            /\ pc' = "metadata"
       ELSE /\ calls' = calls
            /\ pc' = "done"
    /\ UNCHANGED <<cmd, search_type, rawItems, results_array, index, keys,
                   user_selection, out>>

QuickType(c) ==
    CASE c = "song" -> "tracks" [] c = "artist" -> "artists" [] c = "album" -> "albums"

\* lines 145-167
Quickplay ==
    /\ pc = "dispatch" /\ cmd \in {"song", "artist", "album"}
    /\ \E items \in SeqsUpTo(MainItem, MaxItems) :
         /\ rawItems' = items
         /\ search_type' = QuickType(cmd)
         /\ user_selection' = search_and_get_uri(items)
    /\ IF Truthy(user_selection')
       THEN /\ calls' = Append(calls, Call("OpenUri", user_selection'))
            /\ out' = out
            /\ pc' = "metadata"
       ELSE /\ calls' = calls
            /\ out' = ReportNoResults(out)
            /\ pc' = "done"
    /\ UNCHANGED <<cmd, results_array, index, keys>>

MetaKeys == {"xesam:title", "xesam:artist", "xesam:album"}
MetaLine(md, key, label) == print(IF key \in md THEN label ELSE "Unknown")

\* lines 171-177
ShowMetadata ==
    /\ pc = "metadata"
    /\ \E md \in {{}, MetaKeys} :
         out' = out \o <<MetaLine(md, "xesam:title", "Song:\t<title>"),
                         MetaLine(md, "xesam:artist", "Artist:\t<artist>"),
                         MetaLine(md, "xesam:album", "Album:\t<album>")>>
    /\ calls' = Append(calls, Call("Get", Str("Metadata")))
    /\ pc' = "done"
    /\ UNCHANGED <<cmd, search_type, rawItems, results_array, index, keys,
                   user_selection>>

Next ==
    \/ Connect
    \/ \E c \in Keys : LaunchPrompt(c)
    \/ Skip("prev", "Previous")
    \/ Skip("next", "Next")
    \/ Toggle("play", "PlayPause")
    \/ Toggle("pause", "Pause")
    \/ Save
    \/ Vol
    \/ NoCommand
    \/ Search
    \/ \E c \in Keys : ScrollKey(c)
    \/ AfterPick
    \/ Quickplay
    \/ ShowMetadata

Spec == Init /\ [][Next]_vars

\* the blocking getch() of the picker returns, and the input source
\* eventually delivers a carriage return, a q or an escape
TerminalKeys == {"q", KEY_ESC, KEY_CR}
SpecLive == Spec /\ WF_vars(\E c \in TerminalKeys : ScrollKey(c))

---------------------------------------------------------------------------
(* get_search_result_dict on its own, for each of the three kinds *)

InitBuild ==
    /\ cmd = "none"
    /\ pc = "build"
    /\ search_type \in SearchTypes
    /\ rawItems \in SeqsUpTo(RawItem, MaxItems)
    /\ results_array = None
    /\ index = 0
    /\ keys = <<>>
    /\ user_selection = None
    /\ out = <<>>
    /\ calls = <<>>

Build ==
    /\ pc = "build"
    /\ results_array' = get_search_result_dict(rawItems, search_type)
    /\ pc' = "built"
    /\ UNCHANGED <<cmd, search_type, rawItems, index, keys, user_selection,
                   out, calls>>

NextBuild == Build

SpecBuild == InitBuild /\ [][NextBuild]_vars

\* every model that is built: the runs of main and the builds of each kind
SpecAll == (Init \/ InitBuild) /\ [][Next \/ NextBuild]_vars

---------------------------------------------------------------------------
(* Properties of the picker *)

Last(q) == q[Len(q)]
Size == Len(results_array.items)

\* the picker has been entered in this run / has returned
InPicker == pc = "scroll"
PickerReturned == results_array.tag = "dict" /\ pc \in {"picked", "metadata", "done"}

RECURSIVE LastListSel(_, _)
\* the index highlighted in the last list frame among the first n events, -1 if none
LastListSel(o, n) ==
    IF n = 0 THEN -1
    ELSE IF o[n].op = "reprint" /\ o[n].frame.kind = "list" THEN o[n].frame.sel
    ELSE LastListSel(o, n - 1)

RenderedSel == LastListSel(out, Len(out))

\* the list frames rendered so far
Frames == {n \in 1..Len(out) : out[n].op = "reprint" /\ out[n].frame.kind = "list"}

\* C1: while the picker displays, the cursor is the index highlighted in the
\* last rendered frame, and when carriage return ends the picker the value
\* returned is the identifier at the cursor's position in the model
C1_ConfirmReturnsRendered ==
    /\ InPicker => index = RenderedSel
    /\ (PickerReturned /\ Last(keys) = KEY_CR) =>
         /\ index = RenderedSel
         /\ user_selection = Str(results_array.items[index + 1].key)

C1_Witness ==
    /\ PickerReturned /\ Last(keys) = KEY_CR
    /\ Size = 3 /\ index = 1 /\ RenderedSel = 1
    /\ user_selection = Str("B")

\* C2: in every state of a picker invocation the cursor is within the model
C2_IndexInRange ==
    results_array.tag = "dict" => 0 <= index /\ index < Size

C2_Witness ==
    InPicker /\ Size = 3 /\ index = Size - 1 /\ Len(keys) = 3

AllKeys(q, c) == \A n \in 1..Len(q) : q[n] = c

\* C3: after size-1 or more down keys from the start and nothing else, the
\* cursor is on the last entry and only the frames for indices 0..size-1
\* have been rendered: a down key on the last entry changes nothing
C3_DownStopsAtLast ==
    (InPicker /\ AllKeys(keys, "j") /\ Len(keys) >= Size - 1) =>
        /\ index = Size - 1
        /\ Cardinality(Frames) = Size
        /\ RenderedSel = Size - 1

C3_Witness ==
    InPicker /\ AllKeys(keys, "j") /\ Size = 3 /\ Len(keys) = Size /\ index = 2

\* C4: the up key with the cursor at 0 leaves the cursor at 0, renders
\* nothing and does not end the picker
C4_UpStopsAtFirst ==
    [][(InPicker /\ index = 0 /\ keys' = Append(keys, "k")) =>
          (index' = 0 /\ out' = out /\ pc' = "scroll")]_vars

C4_Witness ==
    InPicker /\ keys = <<"j", "k", "k">> /\ index = 0 /\ Size = 2

\* C5: q or escape in any displaying state ends the picker with None
C5_CancelReturnsNone ==
    [][(InPicker /\ (keys' = Append(keys, "q") \/ keys' = Append(keys, KEY_ESC))) =>
          (pc' = "picked" /\ user_selection' = None)]_vars

C5_Witness ==
    /\ PickerReturned /\ pc = "picked" /\ keys = <<"j", "j", KEY_ESC>>
    /\ index = 2 /\ user_selection = None

---------------------------------------------------------------------------
(* Properties of the result model and of main *)

Arity(stype) ==
    CASE stype = "tracks" -> 3 [] stype = "artists" -> 1 [] stype = "albums" -> 2

DistinctUris(items) ==
    \A m, n \in 1..Len(items) : m /= n => items[m].uri /= items[n].uri

\* position n of the model holds the identifier of rawItems[n] and the
\* number of display fields of the kind
EntryMatches(n) ==
    /\ n <= Len(rawItems)
    /\ results_array.items[n].key = rawItems[n].uri
    /\ Len(results_array.items[n].val) = Arity(search_type)

\* C6 as stated: for every list of raw items and each kind, every position
\* of the built model holds the identifier of the raw item at that position,
\* with 3, 1 or 2 display fields
C6_RoundTripEveryList ==
    (pc = "built" /\ results_array.tag = "dict") =>
        \A n \in 1..Len(results_array.items) : EntryMatches(n)

\* C6 amended: for every list of raw items with pairwise distinct
\* identifiers and each kind, the built model has one entry per raw item,
\* position by position the identifier of that raw item, with 3, 1 or 2
\* display fields
C6_RoundTripDistinct ==
    (pc = "built" /\ rawItems /= <<>> /\ DistinctUris(rawItems)) =>
        /\ results_array.tag = "dict"
        /\ Len(results_array.items) = Len(rawItems)
        /\ \A n \in 1..Len(rawItems) : EntryMatches(n)

C6_Witness ==
    /\ pc = "built" /\ search_type = "albums"
    /\ Len(rawItems) = 3 /\ DistinctUris(rawItems)
    /\ DictKeys(results_array) = <<"B", "", "A">>
    /\ Len(results_array.items[3].val) = 2

HasCall(fn) == \E n \in 1..Len(calls) : calls[n].fn = fn

\* C7: a search that returns no items yields no model, main reports no
\* results and returns without reading a key, rendering a frame or opening
\* a uri; the picker only ever runs on a non-empty model
C7_EmptySearchSkipsPicker ==
    /\ (cmd = "search" /\ search_type = "tracks" /\ rawItems = <<>>) =>
         /\ ~Truthy(results_array)
         /\ pc = "done"
         /\ keys = <<>>
         /\ Frames = {}
         /\ out = <<print(NoResultsMsg)>>
         /\ ~HasCall("OpenUri")
    /\ InPicker => (results_array.tag = "dict" /\ Size > 0)

C7_Witness ==
    /\ cmd = "search" /\ search_type = "tracks" /\ rawItems = <<>>
    /\ pc = "done" /\ results_array = None

\* C8: in the search command OpenUri is issued exactly when the picker
\* returned an identifier, with that identifier and after the return; a
\* picker that returned None is followed by no OpenUri
C8_OpenUriIffSelected ==
    /\ (cmd = "search" /\ pc \in {"start", "dispatch", "scroll", "picked"}) =>
         ~HasCall("OpenUri")
    /\ (cmd = "search" /\ PickerReturned /\ pc \in {"metadata", "done"}) =>
         IF user_selection = None
         THEN ~HasCall("OpenUri")
         ELSE /\ HasCall("OpenUri")
              /\ \A n \in 1..Len(calls) :
                   calls[n].fn = "OpenUri" => calls[n].arg = user_selection

RECURSIVE RefFold(_, _, _, _)
\* the reference fold over the characters from position n on, cursor at pos
RefFold(q, n, pos, ids) ==
    IF n > Len(q) THEN [ended |-> FALSE, pos |-> pos, result |-> None]
    ELSE IF q[n] = KEY_CR THEN [ended |-> TRUE, pos |-> pos, result |-> Str(ids[pos + 1])]
    ELSE IF q[n] \in {"q", KEY_ESC} THEN [ended |-> TRUE, pos |-> pos, result |-> None]
    ELSE LET up == IF pos - 1 < 0 THEN 0 ELSE pos - 1
             down == IF pos + 1 > Len(ids) - 1 THEN Len(ids) - 1 ELSE pos + 1
         IN  RefFold(q, n + 1,
                     IF q[n] = "j" THEN down ELSE IF q[n] = "k" THEN up ELSE pos,
                     ids)

Reference == RefFold(keys, 1, 0, DictKeys(results_array))

\* C9: the picker agrees with the reference fold of the characters read:
\* same cursor while displaying, same result once it has returned, and it
\* has returned exactly when the fold met a terminal character
C9_MatchesReferenceFold ==
    /\ InPicker => (~Reference.ended /\ index = Reference.pos)
    /\ PickerReturned =>
         (Reference.ended /\ index = Reference.pos /\ user_selection = Reference.result)

C9_Witness ==
    /\ PickerReturned /\ DictKeys(results_array) = <<"A", "B", "C">>
    /\ keys = <<"j", "j", KEY_CR>> /\ user_selection = Str("C")

C9_WitnessUp ==
    /\ PickerReturned /\ DictKeys(results_array) = <<"A", "B", "C">>
    /\ keys = <<"j", "k", KEY_CR>> /\ user_selection = Str("A")

OtherKeys == Keys \ {"j", "k", "q", KEY_ESC, KEY_CR}

\* C10: a character other than j, k, carriage return, q and escape leaves
\* the cursor and the terminal as they are and the picker displaying
C10_OtherKeyIgnored ==
    [][(InPicker /\ \E c \in OtherKeys : keys' = Append(keys, c)) =>
          (index' = index /\ out' = out /\ pc' = "scroll" /\
           user_selection' = user_selection)]_vars

C10_Witness ==
    InPicker /\ keys = <<"j", "y", "y">> /\ index = 1 /\ Cardinality(Frames) = 2

---------------------------------------------------------------------------
(* Termination of the picker *)

\* the characters read before the last one
Front(q) == SubSeq(q, 1, Len(q) - 1)

\* a step of the picker loop: one more character has been read
ReadsKey == InPicker /\ Len(keys') = Len(keys) + 1

\* C11: the picker returns on a carriage return, a q or an escape and on no
\* other character, its value is None or an identifier of the model, and
\* once it has returned it reads no character, renders nothing, and cursor
\* and value stay as they are
C11_Outcome ==
    PickerReturned =>
        /\ Last(keys) \in TerminalKeys
        /\ \A n \in 1..(Len(keys) - 1) : keys[n] \notin TerminalKeys
        /\ user_selection = None
             \/ \E n \in 1..Size : user_selection = Str(results_array.items[n].key)
        /\ user_selection = None <=> Last(keys) \in {"q", KEY_ESC}

C11_Final ==
    [][PickerReturned =>
         (keys' = keys /\ index' = index /\ user_selection' = user_selection /\
          results_array' = results_array /\ pc' /= "scroll" /\
          Len(out') >= Len(out) /\ SubSeq(out', 1, Len(out)) = out /\
          \A n \in (Len(out) + 1)..Len(out') : out'[n].op = "print")]_vars

C11_OneOutcome == []C11_Outcome /\ C11_Final

C11_Witness ==
    /\ PickerReturned /\ pc = "done" /\ keys = <<"y", "j", KEY_CR>>
    /\ user_selection = Str("B") /\ HasCall("Get")

\* C12: after a character that is neither carriage return, q nor escape the
\* loop reads again, the picker leaves the loop only on one of those three,
\* and if the input source eventually delivers one the picker returns
C12_LoopReentered ==
    [][InPicker =>
         (ReadsKey /\ (pc' = "scroll" <=> Last(keys') \notin TerminalKeys))]_vars

C12_Terminates == C12_LoopReentered /\ (InPicker ~> PickerReturned)

C12_Witness ==
    /\ PickerReturned /\ pc = "picked" /\ keys = <<"k", "y", "j", "q">>

---------------------------------------------------------------------------
(* Terminal output of the picker *)

\* spec-modelled: the rendered block has one line per entry of the model
BlockLines(frame) == Len(frame.rows)

RECURSIVE LastListPos(_, _)
\* position of the last list frame among the first n events, 0 if none
LastListPos(o, n) ==
    IF n = 0 THEN 0
    ELSE IF o[n].op = "reprint" /\ o[n].frame.kind = "list" THEN n
    ELSE LastListPos(o, n - 1)

Clears == {n \in 1..Len(out) : out[n].op = "reprint" /\ out[n].frame.kind = "empty"}
Moveups == {n \in 1..Len(out) : out[n].op = "moveup"}

C14_CancelStep ==
    [][(ReadsKey /\ Last(keys') \in {"q", KEY_ESC}) =>
          (out' = out /\ pc' = "picked" /\ index' = index)]_vars

C14_CancelLeavesFrame ==
    (PickerReturned /\ pc = "picked" /\ Last(keys) \in {"q", KEY_ESC}) =>
        /\ LastListPos(out, Len(out)) = Len(out)
        /\ out[Len(out)].frame.sel = index
        /\ Clears = {} /\ Moveups = {}

C14_CancelSilent == []C14_CancelLeavesFrame /\ C14_CancelStep

C14_Witness ==
    /\ PickerReturned /\ pc = "picked" /\ keys = <<"j", "k", "j", "q">>
    /\ Len(out) = 4 /\ out[4].frame.sel = 1

RECURSIVE Moves(_, _, _, _)
\* cursor changes made by the characters of q from position n on, cursor at pos
Moves(q, n, pos, size) ==
    IF n > Len(q) \/ q[n] \in TerminalKeys THEN 0
    ELSE IF q[n] = "j" /\ pos < size - 1 THEN 1 + Moves(q, n + 1, pos + 1, size)
    ELSE IF q[n] = "k" /\ pos > 0 THEN 1 + Moves(q, n + 1, pos - 1, size)
    ELSE Moves(q, n + 1, pos, size)

\* C15: a character read by the picker renders a frame exactly when it
\* moves the cursor: j below the last entry moves it down by one, k above
\* the first entry up by one, and the one new frame highlights the new
\* index; any other step of the loop renders no frame
C15_RenderOnMove ==
    [][ReadsKey =>
         LET c == Last(keys')
             moved == (c = "j" /\ index < Size - 1) \/ (c = "k" /\ index > 0)
             frames == {n \in 1..Len(out') : out'[n].op = "reprint" /\ out'[n].frame.kind = "list"}
         IN  IF moved
             THEN /\ index' = (IF c = "j" THEN index + 1 ELSE index - 1)
                  /\ out' = Append(out, reprint(pretty_list(DictValues(results_array), index')))
             ELSE /\ index' = index
                  /\ frames = Frames]_vars

\* the frames rendered are the first one and one for each cursor change
C15_FrameCount ==
    (InPicker \/ PickerReturned) =>
        /\ Cardinality(Frames) = 1 + Moves(keys, 1, 0, Size)
        /\ out[1] = reprint(pretty_list(DictValues(results_array), 0))

C15_RenderIffMove == []C15_FrameCount /\ C15_RenderOnMove

C15_Witness ==
    /\ PickerReturned /\ keys = <<"k", "j", "j", KEY_CR>> /\ Size = 2
    /\ Cardinality(Frames) = 2 /\ index = 1

---------------------------------------------------------------------------
(* The result model over its lifetime *)

RECURSIVE FirstUris(_, _, _)
\* the identifiers of the items from position n on that are not in seen,
\* each once, in the order of their first occurrence
FirstUris(items, n, seen) ==
    IF n > Len(items) THEN <<>>
    ELSE IF items[n].uri \in seen THEN FirstUris(items, n + 1, seen)
    ELSE <<items[n].uri>> \o FirstUris(items, n + 1, seen \cup {items[n].uri})

\* C16: a built model holds no identifier twice, its identifiers are those
\* of the raw items in the order the search returned them (each at its
\* first occurrence) with the display fields of a raw item of that
\* identifier, and nothing changes the model once it is built
C16_ModelShape ==
    results_array.tag = "dict" =>
        /\ \A m, n \in 1..Size : m /= n =>
             results_array.items[m].key /= results_array.items[n].key
        /\ DictKeys(results_array) = FirstUris(rawItems, 1, {})
        /\ \A m \in 1..Size : \E n \in 1..Len(rawItems) :
             /\ rawItems[n].uri = results_array.items[m].key
             /\ rawItems[n].name = results_array.items[m].val[1]

C16_ModelFrozen ==
    [][results_array.tag = "dict" => results_array' = results_array]_vars

C16_ModelStable == []C16_ModelShape /\ C16_ModelFrozen

C16_Witness ==
    /\ PickerReturned /\ pc = "picked" /\ Len(keys) = 3
    /\ Len(rawItems) = 3 /\ DictKeys(results_array) = <<"B", "A">>

---------------------------------------------------------------------------
(* main: what is sent to the player *)

LaunchCall == Call("os.system", Str("spotify --minimized & > /dev/null"))
ConnectFailed == out /= <<>> /\ out[1] = print("Error: cannot connect to spotify")

\* C17: once connecting has failed, whatever the command, main sends
\* nothing to the player, searches nothing, changes no volume and queries
\* no metadata; it reads one character, launches the player exactly when
\* that character is y, and returns
C17_ConnectFailure ==
    ConnectFailed =>
        /\ pc \in {"launch_prompt", "done"}
        /\ search_type = "" /\ rawItems = <<>> /\ results_array = None
        /\ \A n \in 1..Len(calls) : calls[n] = LaunchCall
        /\ pc = "launch_prompt" => (keys = <<>> /\ calls = <<>>)
        /\ pc = "done" =>
             /\ Len(keys) = 1
             /\ calls = (IF keys[1] = "y" THEN <<LaunchCall>> ELSE <<>>)

C17_Witness ==
    /\ ConnectFailed /\ cmd = "search" /\ pc = "done"
    /\ keys = <<"y">> /\ calls = <<LaunchCall>>

C17_WitnessAbort ==
    /\ ConnectFailed /\ cmd = "vol_up" /\ pc = "done"
    /\ keys = <<"q">> /\ calls = <<>>

CallsOf(fns) == {n \in 1..Len(calls) : calls[n].fn \in fns}
Quickplays == {"song", "artist", "album"}

\* C18: the metadata is queried at most once, as the last call of the run;
\* a finished run that connected has queried it exactly after no command,
\* prev, next, a quickplay whose search found an item, and a search whose
\* picker returned a selection (then after OpenUri), and after nothing else
C18_MetadataQuery ==
    /\ Cardinality(CallsOf({"Get"})) <= 1
    /\ \A n \in CallsOf({"Get"}) : n = Len(calls)
    /\ (pc = "done" /\ ~ConnectFailed) =>
         (HasCall("Get") <=>
            \/ cmd \in {"none", "prev", "next"}
            \/ cmd \in Quickplays /\ rawItems /= <<>>
            \/ cmd = "search" /\ PickerReturned /\ user_selection /= None)
    /\ (HasCall("Get") /\ cmd = "search") =>
         (Len(calls) = 2 /\ calls[1] = Call("OpenUri", user_selection))

PlaybackCalls == CallsOf({"Previous", "PlayPause", "Pause", "Next", "OpenUri"})

\* C19: a quickplay whose search found items has issued exactly one OpenUri,
\* with the identifier of the first item; one whose search found none has
\* issued no OpenUri, reported no results and returned; no run issues more
\* than one playback command
C19_Quickplay ==
    /\ Cardinality(PlaybackCalls) <= 1
    /\ (cmd \in Quickplays /\ search_type /= "" /\ rawItems /= <<>>) =>
         /\ Cardinality(CallsOf({"OpenUri"})) = 1
         /\ calls[1] = Call("OpenUri", Str(rawItems[1].uri))
    /\ (cmd \in Quickplays /\ search_type /= "" /\ rawItems = <<>>) =>
         /\ calls = <<>> /\ out = <<print(NoResultsMsg)>> /\ pc = "done"

=============================================================================
